---------------------------- MODULE Spec2Model ----------------------------
(***************************************************************************)
(* Model of the streaming tool-augmented generation orchestrator of the    *)
(* Qwen Chat backend (backend/main.py): stream_ollama_response, the inline *)
(* tool-call filter of its streaming loop, parse_tool_calls and the        *)
(* in-memory ResponseCache.                                                *)
(*                                                                         *)
(* Text is a sequence of one-character strings, so that chunk boundaries   *)
(* can fall anywhere, also inside a marker.                                *)
(***************************************************************************)
EXTENDS Integers, Sequences, FiniteSets, TLC

(***************************************************************************)
(* Bounds of the model.                                                    *)
(***************************************************************************)
\* Largest number of content lines the backend splits one round's text into.
MaxChunks == 2
\* Largest value of the clock read by time.time().
MaxTime == 2

\* The most segments a buffer of the scanning scenarios is made of.
MaxSegments == 2

\* The most tokens one generation produces: min(req.max_new_tokens, 64) of
\* line 405, scaled down.
MaxTokens == 5

(***************************************************************************)
(* Program constants.                                                      *)
(***************************************************************************)
max_tool_iterations == 3
\* ResponseCache(max_size=100, ttl_seconds=3600), scaled down.
max_size == 2
ttl_seconds == 2

(***************************************************************************)
(* Markers of the inline wire syntax <tool_call name="X">JSON</tool_call>. *)
(***************************************************************************)
OpenMarker == <<"<", "t", "o", "o", "l", "_", "c", "a", "l", "l">>

CloseMarker == <<"<", "/", "t", "o", "o", "l", "_", "c", "a", "l", "l", ">">>

NameOpen == OpenMarker \o <<" ", "n", "a", "m", "e", "=", "\"">>

(***************************************************************************)
(* String helpers: Python's `in`, str.find and str.strip.                  *)
(***************************************************************************)
StartsAt(sub, s, i) ==
    /\ i >= 1
    /\ i + Len(sub) - 1 <= Len(s)
    /\ SubSeq(s, i, i + Len(sub) - 1) = sub

\* Smallest index >= from at which sub occurs in s, 0 when there is none.
Find(sub, s, from) ==
    LET hits == {i \in from..(Len(s) - Len(sub) + 1) : StartsAt(sub, s, i)}
    IN  IF hits = {} THEN 0 ELSE CHOOSE i \in hits : \A j \in hits : i <= j

Contains(sub, s) == Find(sub, s, 1) # 0

RECURSIVE LStrip(_)
LStrip(s) == IF s # <<>> /\ Head(s) = " " THEN LStrip(Tail(s)) ELSE s

RECURSIVE RStrip(_)
RStrip(s) ==
    IF s # <<>> /\ s[Len(s)] = " " THEN RStrip(SubSeq(s, 1, Len(s) - 1)) ELSE s

Strip(s) == RStrip(LStrip(s))

RECURSIVE Concat(_)
Concat(ss) == IF ss = <<>> THEN <<>> ELSE Head(ss) \o Concat(Tail(ss))

(***************************************************************************)
(* json.loads on the bodies the model's alphabet can spell: an object      *)
(* without members, possibly with blanks between the braces, or a number   *)
(* written with the digit 1.  Anything else raises JSONDecodeError.        *)
(***************************************************************************)
RECURSIVE NoBlanks(_)
NoBlanks(s) ==
    IF s = <<>> THEN <<>>
    ELSE IF Head(s) = " " THEN NoBlanks(Tail(s))
    ELSE <<Head(s)>> \o NoBlanks(Tail(s))

JsonLoads(s) ==
    IF NoBlanks(s) = <<"{", "}">> /\ Head(s) = "{" /\ s[Len(s)] = "}"
    THEN [ok |-> TRUE, value |-> [type |-> "object", size |-> 0]]
    ELSE IF s # <<>> /\ \A i \in 1..Len(s) : s[i] = "1"
    THEN [ok |-> TRUE, value |-> [type |-> "number", size |-> Len(s)]]
    ELSE [ok |-> FALSE, value |-> [type |-> "error", size |-> 0]]

(***************************************************************************)
(* The re.search of the streaming loop (DOTALL): lazy text before the tag, *)
(* then the opening marker, any characters other than '>', a '>', lazy     *)
(* text and the closing marker, then the rest.  It finds the leftmost      *)
(* opening marker that is followed by '>' (the first one after it) and     *)
(* then by a closing marker (the first one after that '>').                *)
(***************************************************************************)
TagSearch(buf) ==
    LET gt(i) == Find(<<">">>, buf, i + Len(OpenMarker))
        cl(i) == Find(CloseMarker, buf, gt(i) + 1)
        starts == {i \in 1..Len(buf) :
                     /\ StartsAt(OpenMarker, buf, i)
                     /\ gt(i) # 0
                     /\ cl(i) # 0}
    IN  IF starts = {}
        THEN [found |-> FALSE, before |-> <<>>, tag |-> <<>>, after |-> <<>>]
        ELSE LET i == CHOOSE x \in starts : \A y \in starts : x <= y
                 e == cl(i) + Len(CloseMarker)
             IN  [found  |-> TRUE,
                  before |-> SubSeq(buf, 1, i - 1),
                  tag    |-> SubSeq(buf, i, e - 1),
                  after  |-> SubSeq(buf, e, Len(buf))]

(***************************************************************************)
(* The `while True` loop over display_buffer that runs for every content   *)
(* delta: the texts it yields, in order, and the buffer it leaves.         *)
(***************************************************************************)
\* ProcessBuffer without the `display_buffer = ""` that follows the yield.
RECURSIVE ProcessBufferNoClear(_)
ProcessBufferNoClear(buf) ==
    IF ~Contains(OpenMarker, buf)
    THEN [out |-> IF buf # <<>> THEN <<buf>> ELSE <<>>, buf |-> buf]
    ELSE IF Contains(CloseMarker, buf)
    THEN LET m == TagSearch(buf)
         IN  IF m.found
             THEN LET r == ProcessBufferNoClear(m.after)
                  IN  [out |-> (IF m.before # <<>> THEN <<m.before>> ELSE <<>>)
                                   \o r.out,
                       buf |-> r.buf]
             ELSE [out |-> <<>>, buf |-> buf]
    ELSE [out |-> <<>>, buf |-> buf]

\* ProcessBuffer yielding the text after a tag ahead of the text before it.
RECURSIVE ProcessBufferAfterFirst(_)
ProcessBufferAfterFirst(buf) ==
    IF ~Contains(OpenMarker, buf)
    THEN [out |-> IF buf # <<>> THEN <<buf>> ELSE <<>>, buf |-> <<>>]
    ELSE IF Contains(CloseMarker, buf)
    THEN LET m == TagSearch(buf)
         IN  IF m.found
             THEN LET r == ProcessBufferAfterFirst(m.after)
                  IN  [out |-> r.out \o
                                (IF m.before # <<>> THEN <<m.before>> ELSE <<>>),
                       buf |-> r.buf]
             ELSE [out |-> <<>>, buf |-> buf]
    ELSE [out |-> <<>>, buf |-> buf]

RECURSIVE ProcessBuffer(_)
ProcessBuffer(buf) ==
    IF ~Contains(OpenMarker, buf)
    THEN [out |-> IF buf # <<>> THEN <<buf>> ELSE <<>>, buf |-> <<>>]
    ELSE IF Contains(CloseMarker, buf)
    THEN LET m == TagSearch(buf)
         IN  IF m.found
             THEN LET r == ProcessBuffer(m.after)
                  IN  [out |-> (IF m.before # <<>> THEN <<m.before>> ELSE <<>>)
                                   \o r.out,
                       buf |-> r.buf]
             ELSE [out |-> <<>>, buf |-> buf]
    ELSE [out |-> <<>>, buf |-> buf]

\* The flush at the `done` line: what is left is yielded unless a marker is in it.
FinalFlush(buf) ==
    IF buf # <<>> /\ ~Contains(OpenMarker, buf) THEN <<buf>> ELSE <<>>

(***************************************************************************)
(* parse_tool_calls: re.finditer (DOTALL) over the opening marker with a   *)
(* name attribute of one or more characters other than '"', a lazy body    *)
(* and the closing marker, left to right and non-overlapping; a body that  *)
(* json.loads rejects drops that call.                                     *)
(***************************************************************************)
\* The match starting at p, if the pattern matches there.
TagMatchAt(text, p) ==
    LET n == p + Len(NameOpen)
        q == Find(<<"\"">>, text, n)
        c == IF q = 0 THEN 0 ELSE Find(CloseMarker, text, q + 2)
    IN  IF /\ StartsAt(NameOpen, text, p)
           /\ q > n
           /\ StartsAt(<<">">>, text, q + 1)
           /\ c # 0
        THEN [found |-> TRUE,
              name  |-> SubSeq(text, n, q - 1),
              body  |-> SubSeq(text, q + 2, c - 1),
              raw   |-> SubSeq(text, p, c + Len(CloseMarker) - 1),
              next  |-> c + Len(CloseMarker)]
        ELSE [found |-> FALSE, name |-> <<>>, body |-> <<>>, raw |-> <<>>,
              next |-> 0]

RECURSIVE ParseFrom(_, _)
ParseFrom(text, pos) ==
    LET starts == {p \in pos..Len(text) : TagMatchAt(text, p).found}
    IN  IF starts = {} THEN <<>>
        ELSE LET p == CHOOSE x \in starts : \A y \in starts : x <= y
                 m == TagMatchAt(text, p)
                 j == JsonLoads(Strip(m.body))
             IN  (IF j.ok
                  THEN <<[name |-> m.name, arguments |-> j.value,
                          raw_match |-> m.raw]>>
                  ELSE <<>>) \o ParseFrom(text, m.next)

parse_tool_calls(text) == ParseFrom(text, 1)


(***************************************************************************)
(* Lines 883-894: structured calls reported by the backend take the place  *)
(* of the inline tags of the round's text.                                 *)
(***************************************************************************)
\* SelectToolCalls merging the two encodings instead of preferring one.
SelectToolCallsMerged(found, text) ==
    [i \in 1..Len(found) |->
        [name      |-> found[i].function.name,
         arguments |-> found[i].function.arguments]]
        \o parse_tool_calls(text)

SelectToolCalls(found, text) ==
    IF found # <<>>
    THEN [i \in 1..Len(found) |->
            [name      |-> found[i].function.name,
             arguments |-> found[i].function.arguments]]
    ELSE parse_tool_calls(text)

\* Accumulate with `=` in the place of `+=`.
AccumulateLast(acc, content) == content

\* Lines 818-820: a content delta is appended to what was received so far.
Accumulate(acc, content) == acc \o content

\* LoopCondition off by one.
LoopConditionOffByOne(iteration) == iteration <= max_tool_iterations

\* Line 749: the condition of the generation loop.
LoopCondition(iteration) == iteration < max_tool_iterations

(***************************************************************************)
(* ResponseCache.  The dict is a sequence of entries in insertion order,   *)
(* which is the order min() scans its keys in.                             *)
(***************************************************************************)
md5(content) == <<"md5", content>>

RECURSIVE JoinMessages(_)
JoinMessages(ms) ==
    IF ms = <<>> THEN ""
    ELSE (Head(ms).role \o ":" \o Head(ms).content) \o JoinMessages(Tail(ms))

\* _get_cache_key over every message of the list.
_get_cache_key_all(messages) == md5(JoinMessages(messages))

_get_cache_key(messages) ==
    LET recent_messages ==
            IF Len(messages) >= 3
            THEN SubSeq(messages, Len(messages) - 2, Len(messages))
            ELSE messages
    IN  md5(JoinMessages(recent_messages))

CacheIndex(c, key) ==
    LET hits == {i \in 1..Len(c) : c[i].key = key}
    IN  IF hits = {} THEN 0 ELSE CHOOSE i \in hits : TRUE

CacheDelete(c, i) == SubSeq(c, 1, i - 1) \o SubSeq(c, i + 1, Len(c))

\* CacheGet with a hit that renews the entry's timestamp.
CacheGetRefreshing(c, messages, time) ==
    LET key == _get_cache_key(messages)
        i   == CacheIndex(c, key)
    IN  IF i = 0
        THEN [hit |-> FALSE, response |-> <<>>, cache |-> c]
        ELSE IF time - c[i].timestamp < ttl_seconds
        THEN [hit |-> TRUE, response |-> c[i].response,
              cache |-> [c EXCEPT ![i].timestamp = time]]
        ELSE [hit |-> FALSE, response |-> <<>>, cache |-> CacheDelete(c, i)]

\* CacheGet that reports an expired entry as a miss and leaves it in place.
CacheGetKeepsExpired(c, messages, time) ==
    LET key == _get_cache_key(messages)
        i   == CacheIndex(c, key)
    IN  IF i = 0
        THEN [hit |-> FALSE, response |-> <<>>, cache |-> c]
        ELSE IF time - c[i].timestamp < ttl_seconds
        THEN [hit |-> TRUE, response |-> c[i].response, cache |-> c]
        ELSE [hit |-> FALSE, response |-> <<>>, cache |-> c]

\* ResponseCache.get: the response returned (None when hit is FALSE) and the
\* dict it leaves.
CacheGet(c, messages, time) ==
    LET key == _get_cache_key(messages)
        i   == CacheIndex(c, key)
    IN  IF i = 0
        THEN [hit |-> FALSE, response |-> <<>>, cache |-> c]
        ELSE IF time - c[i].timestamp < ttl_seconds
        THEN [hit |-> TRUE, response |-> c[i].response, cache |-> c]
        ELSE [hit |-> FALSE, response |-> <<>>, cache |-> CacheDelete(c, i)]

\* CacheSet evicting the entry stored last.
CacheSetEvictsNewest(c, messages, response, time) ==
    LET key == _get_cache_key(messages)
        newest == CHOOSE i \in 1..Len(c) :
                    /\ \A j \in 1..Len(c) : c[i].timestamp >= c[j].timestamp
                    /\ \A j \in (i + 1)..Len(c) :
                           c[j].timestamp < c[i].timestamp
        kept == IF Len(c) >= max_size THEN CacheDelete(c, newest) ELSE c
        i == CacheIndex(kept, key)
        entry == [key |-> key, response |-> response, timestamp |-> time]
    IN  IF i = 0 THEN Append(kept, entry) ELSE [kept EXCEPT ![i] = entry]

\* CacheSet that evicts nothing.
CacheSetKeepsAll(c, messages, response, time) ==
    LET key == _get_cache_key(messages)
        i == CacheIndex(c, key)
        entry == [key |-> key, response |-> response, timestamp |-> time]
    IN  IF i = 0 THEN Append(c, entry) ELSE [c EXCEPT ![i] = entry]

\* CacheSet that leaves the entry of a key already stored as it is.
CacheSetKeepsFirst(c, messages, response, time) ==
    LET key == _get_cache_key(messages)
        oldest == CHOOSE i \in 1..Len(c) :
                    /\ \A j \in 1..Len(c) : c[i].timestamp <= c[j].timestamp
                    /\ \A j \in 1..(i - 1) : c[j].timestamp > c[i].timestamp
        kept == IF Len(c) >= max_size THEN CacheDelete(c, oldest) ELSE c
        i == CacheIndex(kept, key)
        entry == [key |-> key, response |-> response, timestamp |-> time]
    IN  IF i = 0 THEN Append(kept, entry) ELSE kept

\* ResponseCache.set.
CacheSet(c, messages, response, time) ==
    LET key == _get_cache_key(messages)
        oldest == CHOOSE i \in 1..Len(c) :
                    /\ \A j \in 1..Len(c) : c[i].timestamp <= c[j].timestamp
                    /\ \A j \in 1..(i - 1) : c[j].timestamp > c[i].timestamp
        kept == IF Len(c) >= max_size THEN CacheDelete(c, oldest) ELSE c
        i == CacheIndex(kept, key)
        entry == [key |-> key, response |-> response, timestamp |-> time]
    IN  IF i = 0 THEN Append(kept, entry) ELSE [kept EXCEPT ![i] = entry]

(***************************************************************************)
(* find_matching_template (services.artifact_templates): a pure function   *)
(* over a fixed pattern set; "" stands for None.                           *)
(***************************************************************************)
find_matching_template(text) == IF text = "landing page" THEN "TEMPLATE" ELSE ""

\* next((msg.content for msg in reversed(messages) if msg.role == "user"), "")
LatestUserMsg(messages) ==
    LET users == {i \in 1..Len(messages) : messages[i].role = "user"}
    IN  IF users = {} THEN ""
        ELSE messages[CHOOSE i \in users : \A j \in users : j <= i].content

(***************************************************************************)
(* Events of the response stream: the JSON object of each `yield`.         *)
(***************************************************************************)
Event(content, done) == [content |-> content, done |-> done]

Passthrough(texts) == [i \in 1..Len(texts) |-> Event(texts[i], FALSE)]

TemplateEvent(template) ==
    Event(<<"Here's what you asked for:", template>>, TRUE)

CachedEvent(response) == Event(response, TRUE)

DoneEvent == Event(<<>>, TRUE)

ErrorEvent(exc) ==
    Event(<<"I apologize, but I encountered an error: ", exc>>, TRUE)

ToolErrorEvent(tool_name) ==
    Event(<<"[Tool: ">> \o tool_name \o <<" encountered an error]">>, FALSE)

(***************************************************************************)
(* Inputs: the requests, and what the backend answers in a round.          *)
(***************************************************************************)
Requests ==
    { <<[role |-> "user", content |-> "open youtube"]>>,
      <<[role |-> "user", content |-> "landing page"]>> }

Tag(name, body) == NameOpen \o name \o <<"\"", ">">> \o body \o CloseMarker

\* A well-formed tag, a tag whose body is not JSON, a tag that is never closed,
\* plain text, and a closing marker on its own.
TagX == Tag(<<"x">>, <<"{", "}">>)
TagBad == Tag(<<"y">>, <<"{">>)
TagY == Tag(<<"y">>, <<"{", "}">>)
TagOpen == NameOpen \o <<"z", "\"", ">", "{">>
Segments == { <<"a">>, TagX, TagBad, TagOpen, CloseMarker }

\* The text of a round: one segment, or two in a row.
Texts == Segments \cup { a \o b : a, b \in Segments }

StructuredCall(name) ==
    [function |-> [name |-> name,
                   arguments |-> [type |-> "object", size |-> 0]]]

\* A round of the backend: its text, the structured calls it reports and the
\* number of lines it may spread them over.
Round(text, calls, lines) == [text |-> text, calls |-> calls, lines |-> lines]

\* The rounds of the orchestration scenarios, each delivered whole.
Backend(k) ==
    { Round(<<"o", "k">>, <<>>, 1),
      Round(<<>>, <<>>, 1),
      Round(<<>>, <<StructuredCall(<<"s">>)>>, 1),
      Round(<<"a">> \o TagX, <<>>, 1),
      Round(TagX, <<StructuredCall(<<"s">>)>>, 1),
      Round(<<>>, <<StructuredCall(<<"s">>), StructuredCall(<<"t">>)>>, 2) }

\* The rounds of the chunking scenarios: the first round's text is cut into
\* lines anywhere, the rounds after it answer in plain text.
ChunkedBackend(k) ==
    IF k = 1
    THEN { Round(t, <<>>, MaxChunks) : t \in Texts }
    ELSE { Round(<<"o", "k">>, <<>>, 1) }

\* Texts with two complete tags: a letter or nothing between them, and
\* letters or nothing around them.
TaggedTexts ==
    { around[1] \o TagX \o s1 \o TagY \o around[2] :
        around \in { <<(<<>>), (<<>>)>>, <<(<<"a">>), (<<"c">>)>> },
        s1 \in { <<>>, <<"b">> } }

\* The rounds of the scenarios with several tags: the first round's text
\* holds two tags and is cut into lines anywhere.
TaggedBackend(k) ==
    IF k = 1
    THEN { Round(t, <<>>, MaxChunks) : t \in TaggedTexts }
    ELSE { Round(<<"o", "k">>, <<>>, 1) }

ToolOutcomes == {"result", "none", "raise"}

(***************************************************************************)
(* State of one request served by stream_ollama_response.                  *)
(***************************************************************************)
VARIABLES
    pc,                 \* position of the generator
    request,            \* request.messages
    time,               \* time.time()
    cache,              \* response_cache.cache
    formatted_messages, \* the message list sent to the backend
    full_response,      \* text received over all rounds
    iteration_response, \* text received in the current round
    display_buffer,     \* text of the current round not yet classified
    tool_calls_found,   \* structured calls reported in the current round
    tool_calls,         \* the calls extracted at the end of the round
    tool_index,         \* the call the `for` loop is at
    tool_iteration,     \* rounds that ended with tool calls
    stream,             \* what the backend has still to send in this round
    outbox,             \* events the running step yields, not yet consumed
    events,             \* events the client has consumed, in order
    connected,          \* FALSE once the client has closed the generator
    requests_sent,      \* history: the message list of every round opened
    round_lines,        \* history: the lines read in the current round
    round_base,         \* history: number of events before the current round
    round_calls,        \* history: the calls extracted in every finished round
    invoked,            \* history: every mcp_client.call_tool made
    outcomes,           \* history: how each call_tool that has ended, ended
    cache_log,          \* history: the calls made on response_cache
    failure,            \* history: the exception that ended the request
    connection,         \* TRUE while the backend response of a round is open
    thread,             \* chat_stream: the thread running _model.generate
    text_queue,         \* chat_stream: streamer.text_queue
    new_tokens,         \* chat_stream: tokens generated so far
    token_generator,    \* chat_stream: position of the response generator
    body                \* chat_stream: the chunks the client has received

vars == <<pc, request, time, cache, formatted_messages, full_response,
          iteration_response, display_buffer, tool_calls_found, tool_calls,
          tool_index, tool_iteration, stream, outbox, events, connected,
          requests_sent, round_lines, round_base, round_calls, invoked,
          outcomes, cache_log, failure, connection, thread, text_queue,
          new_tokens, token_generator, body>>

\* The state of the direct streaming endpoint.
direct == <<thread, text_queue, new_tokens, token_generator, body>>

locals == <<full_response, iteration_response, display_buffer,
            tool_calls_found, tool_calls, tool_index, tool_iteration, stream>>

history == <<requests_sent, round_lines, round_base, round_calls, invoked,
             outcomes, cache_log>>

NoStream == Round(<<>>, <<>>, 0)

\* A cache left by an earlier request: empty, or holding the response to
\* this request's window, stored at time 0.
InitialCaches(messages) ==
    { <<>>,
      <<[key |-> _get_cache_key(messages), response |-> <<"o", "k">>,
         timestamp |-> 0]>> }

Init ==
    /\ pc = "start"
    /\ request \in Requests
    /\ time \in 0..MaxTime
    /\ cache \in InitialCaches(request)
    /\ formatted_messages = <<>>
    /\ full_response = <<>>
    /\ iteration_response = <<>>
    /\ display_buffer = <<>>
    /\ tool_calls_found = <<>>
    /\ tool_calls = <<>>
    /\ tool_index = 0
    /\ tool_iteration = 0
    /\ stream = NoStream
    /\ outbox = <<>>
    /\ events = <<>>
    /\ connected = TRUE
    /\ requests_sent = <<>>
    /\ round_lines = <<>>
    /\ round_base = 0
    /\ round_calls = <<>>
    /\ invoked = <<>>
    /\ outcomes = <<>>
    /\ cache_log = <<>>
    /\ failure = "none"
    /\ connection = FALSE
    /\ thread = "none"
    /\ text_queue = <<>>
    /\ new_tokens = 0
    /\ token_generator = "none"
    /\ body = <<>>

\* The generator runs only when the client has consumed what it yielded.
Running(at) == pc = at /\ outbox = <<>> /\ connected

\* Raise with a handler that reports the error and goes on with the loop.
RaiseAndRetry(exc) ==
    /\ pc' = "loop"
    /\ outbox' = <<ErrorEvent(exc)>>
    /\ failure' = exc

\* `except Exception` (lines 974-986): one event with done=true, then the end.
Raise(exc) ==
    /\ pc' = "closed"
    /\ outbox' = <<ErrorEvent(exc)>>
    /\ failure' = exc

(***************************************************************************)
(* Lines 639-671, before the `try`: the system message is built with       *)
(* get_specialized_knowledge and tool_selector.select_tools.  An exception *)
(* of either leaves the generator without any event.                       *)
(***************************************************************************)
Prepare ==
    /\ Running("start")
    /\ \E raises \in BOOLEAN :
         IF raises
         THEN /\ pc' = "crashed"
              /\ failure' = "prepare"
              /\ UNCHANGED formatted_messages
         ELSE /\ pc' = "template"
              /\ formatted_messages' =
                     <<[role |-> "system", content |-> "system_prompt"]>>
                         \o request
              /\ UNCHANGED failure
    /\ UNCHANGED <<direct, connection, request, time, cache, locals, outbox, events, connected,
                   history>>

\* TemplateCheck without the `return` that follows the yield.
TemplateCheckNoReturn ==
    /\ Running("template")
    /\ \E raises \in BOOLEAN :
         IF raises
         THEN Raise("template")
         ELSE LET template_match ==
                      find_matching_template(LatestUserMsg(request))
              IN  IF template_match # ""
                  THEN /\ pc' = "cache"
                       /\ outbox' = <<TemplateEvent(template_match)>>
                       /\ UNCHANGED failure
                  ELSE /\ pc' = "cache"
                       /\ UNCHANGED <<outbox, failure>>
    /\ UNCHANGED <<direct, connection, request, time, cache, formatted_messages, locals, events,
                   connected, history>>

\* Lines 677-690: the template check.
TemplateCheck ==
    /\ Running("template")
    /\ \E raises \in BOOLEAN :
         IF raises
         THEN Raise("template")
         ELSE LET template_match ==
                      find_matching_template(LatestUserMsg(request))
              IN  IF template_match # ""
                  THEN /\ pc' = "closed"
                       /\ outbox' = <<TemplateEvent(template_match)>>
                       /\ UNCHANGED failure
                  ELSE /\ pc' = "cache"
                       /\ UNCHANGED <<outbox, failure>>
    /\ UNCHANGED <<direct, connection, request, time, cache, formatted_messages, locals, events,
                   connected, history>>

\* Lines 692-704: the cache lookup.
CacheLookup ==
    /\ Running("cache")
    /\ \E raises \in BOOLEAN :
         IF raises
         THEN Raise("cache") /\ UNCHANGED <<cache, cache_log>>
         ELSE LET got == CacheGet(cache, request, time)
              IN  /\ cache' = got.cache
                  /\ cache_log' = Append(cache_log,
                                          [op |-> "get",
                                           key |-> _get_cache_key(request),
                                           response |-> got.response])
                  /\ IF got.hit /\ got.response # <<>>
                     THEN /\ pc' = "closed"
                          /\ outbox' = <<CachedEvent(got.response)>>
                     ELSE /\ pc' = "select"
                          /\ UNCHANGED outbox
                  /\ UNCHANGED failure
    /\ UNCHANGED <<direct, connection, request, time, formatted_messages, locals, events,
                   connected, requests_sent, round_lines, round_base,
                   round_calls, invoked, outcomes>>

\* Lines 708-746: model and tool selection, inside the `try`.
SelectTools ==
    /\ Running("select")
    /\ \E raises \in BOOLEAN :
         IF raises
         THEN Raise("select")
         ELSE /\ pc' = "loop"
              /\ UNCHANGED <<outbox, failure>>
    /\ UNCHANGED <<direct, connection, request, time, cache, formatted_messages, locals, events,
                   connected, history>>

(***************************************************************************)
(* Lines 749-802: the loop condition holds and a round is opened with the  *)
(* current message list.  `rounds` is what the backend may answer.         *)
(***************************************************************************)
OpenRound(rounds) ==
    /\ Running("loop")
    /\ LoopCondition(tool_iteration)
    /\ \E r \in rounds : stream' = r
    /\ round_lines' = <<>>
    /\ pc' = "stream"
    /\ iteration_response' = <<>>
    /\ display_buffer' = <<>>
    /\ tool_calls_found' = <<>>
    /\ requests_sent' = Append(requests_sent, formatted_messages)
    /\ round_base' = Len(events)
    /\ connection' = TRUE
    /\ UNCHANGED <<direct, request, time, cache, formatted_messages, full_response,
                   tool_calls, tool_index, tool_iteration, outbox, events,
                   connected, round_calls, invoked, outcomes, cache_log,
                   failure>>

(***************************************************************************)
(* Lines 804-880: one line of the backend's stream.  It carries the next k *)
(* characters of the round's text and the next j structured calls; a line  *)
(* with done=true carries all that is left.                                *)
(***************************************************************************)
ReadLine ==
    /\ Running("stream")
    /\ \E k \in 0..Len(stream.text), j \in 0..Len(stream.calls),
          done \in BOOLEAN :
         LET carries == k + j > 0
             content == SubSeq(stream.text, 1, k)
             calls == SubSeq(stream.calls, 1, j)
             buffered == Accumulate(display_buffer, content)
             r == IF content # <<>> THEN ProcessBuffer(buffered)
                  ELSE [out |-> <<>>, buf |-> display_buffer]
         IN  /\ carries \/ done
             /\ carries => stream.lines >= 1
             /\ (done \/ (carries /\ stream.lines = 1))
                    => (k = Len(stream.text) /\ j = Len(stream.calls))
             /\ round_lines' =
                    IF carries
                    THEN Append(round_lines,
                                [content |-> content, tool_calls |-> calls])
                    ELSE round_lines
             /\ tool_calls_found' = tool_calls_found \o calls
             /\ iteration_response' = Accumulate(iteration_response, content)
             /\ full_response' = Accumulate(full_response, content)
             /\ display_buffer' = r.buf
             /\ outbox' = Passthrough(r.out \o
                              (IF done THEN FinalFlush(r.buf) ELSE <<>>))
             /\ IF done
                THEN /\ pc' = "extract"
                     /\ stream' = NoStream
                ELSE /\ pc' = "stream"
                     /\ stream' = Round(
                            SubSeq(stream.text, k + 1, Len(stream.text)),
                            SubSeq(stream.calls, j + 1, Len(stream.calls)),
                            IF carries THEN stream.lines - 1 ELSE stream.lines)
    /\ UNCHANGED <<direct, connection, request, time, cache, formatted_messages, tool_calls,
                   tool_index, tool_iteration, events, connected,
                   requests_sent, round_base, round_calls, invoked, outcomes,
                   cache_log, failure>>

\* The stream ends without a line that says done=true.
EndOfStream ==
    /\ Running("stream")
    /\ stream.text = <<>>
    /\ stream.calls = <<>>
    /\ pc' = "extract"
    /\ stream' = NoStream
    /\ UNCHANGED <<direct, connection, request, time, cache, formatted_messages, full_response,
                   iteration_response, display_buffer, tool_calls_found,
                   tool_calls, tool_index, tool_iteration, outbox, events,
                   connected, history, failure>>

\* Lines 792-797: the connection fails, the status is not 2xx, or a read
\* times out.
TransportError ==
    /\ Running("stream")
    /\ Raise("transport")
    /\ connection' = FALSE
    /\ UNCHANGED <<direct, request, time, cache, formatted_messages, locals, events,
                   connected, history>>

(***************************************************************************)
(* Lines 882-902: the calls of the round; none ends the loop, otherwise    *)
(* the iteration counter is incremented and the calls are executed.        *)
(***************************************************************************)
ExtractToolCalls ==
    /\ Running("extract")
    /\ LET calls == SelectToolCalls(tool_calls_found, iteration_response)
       IN  /\ tool_calls' = calls
           /\ round_calls' = Append(round_calls, calls)
           /\ IF calls = <<>>
              THEN /\ pc' = "final"
                   /\ UNCHANGED <<tool_iteration, tool_index>>
              ELSE /\ pc' = "tools"
                   /\ tool_iteration' = tool_iteration + 1
                   /\ tool_index' = 1
    /\ connection' = FALSE
    /\ UNCHANGED <<direct, request, time, cache, formatted_messages, full_response,
                   iteration_response, display_buffer, tool_calls_found,
                   stream, outbox, events, connected, requests_sent,
                   round_lines, round_base, invoked, outcomes, cache_log,
                   failure>>

(***************************************************************************)
(* Lines 904-948: one pass of the `for` loop.  The generator is suspended  *)
(* at `await mcp_client.call_tool` until the tool returns a result,        *)
(* returns nothing, or raises.                                             *)
(***************************************************************************)
\* ToolMessages with the tool-result entry in front of the tool_calls entry.
ToolMessagesSwapped(tool_call, outcome) ==
    << [role |-> "tool",
        content |-> IF outcome = "result" THEN "json.dumps(result)"
                    ELSE "Tool execution failed",
        tool_name |-> tool_call.name],
       [role |-> "assistant", content |-> "",
        tool_calls |-> <<[function |-> [name |-> tool_call.name,
                                        arguments |-> tool_call.arguments]]>>] >>

\* Lines 919-936: the two entries appended for a call that did not raise.
ToolMessages(tool_call, outcome) ==
    << [role |-> "assistant", content |-> "",
        tool_calls |-> <<[function |-> [name |-> tool_call.name,
                                        arguments |-> tool_call.arguments]]>>],
       [role |-> "tool",
        content |-> IF outcome = "result" THEN "json.dumps(result)"
                    ELSE "Tool execution failed",
        tool_name |-> tool_call.name] >>

\* StartTool making all the calls of the round at once.
StartToolAll ==
    /\ Running("tools")
    /\ pc' = "calling"
    /\ invoked' = invoked \o
                      [i \in 1..(Len(tool_calls) - tool_index + 1) |->
                          [round |-> Len(requests_sent),
                           name |-> tool_calls[tool_index + i - 1].name,
                           arguments |->
                               tool_calls[tool_index + i - 1].arguments]]
    /\ UNCHANGED <<direct, connection, request, time, cache, formatted_messages, locals, outbox,
                   events, connected, requests_sent, round_lines, round_base,
                   round_calls, outcomes, cache_log, failure>>

\* Lines 904-911: the call is made.
StartTool ==
    /\ Running("tools")
    /\ pc' = "calling"
    /\ invoked' = Append(invoked,
                         [round |-> Len(requests_sent),
                          name |-> tool_calls[tool_index].name,
                          arguments |-> tool_calls[tool_index].arguments])
    /\ UNCHANGED <<direct, connection, request, time, cache, formatted_messages, locals, outbox,
                   events, connected, requests_sent, round_lines, round_base,
                   round_calls, outcomes, cache_log, failure>>

\* CallTool with a failure that ends the `for` loop.
CallToolAborting ==
    /\ Running("calling")
    /\ \E outcome \in ToolOutcomes :
         LET tool_call == tool_calls[tool_index]
         IN  /\ outcomes' = Append(outcomes, outcome)
             /\ IF outcome = "raise"
                THEN /\ outbox' = <<ToolErrorEvent(tool_call.name)>>
                     /\ UNCHANGED formatted_messages
                ELSE /\ formatted_messages' =
                            formatted_messages
                                \o ToolMessages(tool_call, outcome)
                     /\ UNCHANGED outbox
             /\ IF tool_index < Len(tool_calls) /\ outcome = "result"
                THEN /\ tool_index' = tool_index + 1
                     /\ pc' = "tools"
                ELSE /\ tool_index' = 0
                     /\ pc' = "loop"
    /\ UNCHANGED <<direct, connection, request, time, cache, full_response, iteration_response,
                   display_buffer, tool_calls_found, tool_calls,
                   tool_iteration, stream, events, connected, requests_sent,
                   round_lines, round_base, round_calls, invoked, cache_log,
                   failure>>

\* Lines 911-948: the call ends.
CallTool ==
    /\ Running("calling")
    /\ \E outcome \in ToolOutcomes :
         LET tool_call == tool_calls[tool_index]
         IN  /\ outcomes' = Append(outcomes, outcome)
             /\ IF outcome = "raise"
                THEN /\ outbox' = <<ToolErrorEvent(tool_call.name)>>
                     /\ UNCHANGED formatted_messages
                ELSE /\ formatted_messages' =
                            formatted_messages
                                \o ToolMessages(tool_call, outcome)
                     /\ UNCHANGED outbox
    /\ IF tool_index < Len(tool_calls)
       THEN /\ tool_index' = tool_index + 1
            /\ pc' = "tools"
       ELSE /\ tool_index' = 0
            /\ pc' = "loop"
    /\ UNCHANGED <<direct, connection, request, time, cache, full_response, iteration_response,
                   display_buffer, tool_calls_found, tool_calls,
                   tool_iteration, stream, events, connected, requests_sent,
                   round_lines, round_base, round_calls, invoked, cache_log,
                   failure>>

\* SendDone reporting a used-up budget as an error.
SendDoneBudgetError ==
    /\ \/ Running("final")
       \/ Running("loop") /\ ~LoopCondition(tool_iteration)
    /\ IF pc = "final"
       THEN /\ pc' = "store"
            /\ outbox' = <<DoneEvent>>
            /\ UNCHANGED failure
       ELSE Raise("budget")
    /\ UNCHANGED <<direct, connection, request, time, cache, formatted_messages, locals, events,
                   connected, history>>

\* Lines 956-964: the loop is over (break, or the loop condition is false).
SendDone ==
    /\ \/ Running("final")
       \/ Running("loop") /\ ~LoopCondition(tool_iteration)
    /\ pc' = "store"
    /\ outbox' = <<DoneEvent>>
    /\ UNCHANGED <<direct, connection, request, time, cache, formatted_messages, locals, events,
                   connected, history, failure>>

\* CacheStore under the window of the message list sent to the backend.
CacheStoreFormatted ==
    /\ Running("store")
    /\ IF full_response # <<>> /\ LatestUserMsg(request) # ""
       THEN \E raises \in BOOLEAN :
              IF raises
              THEN Raise("store") /\ UNCHANGED <<cache, cache_log>>
              ELSE /\ cache' = CacheSet(cache, formatted_messages, full_response, time)
                   /\ cache_log' = Append(cache_log,
                                          [op |-> "set",
                                           key |-> _get_cache_key(formatted_messages),
                                           response |-> full_response])
                   /\ pc' = "closed"
                   /\ UNCHANGED <<outbox, failure>>
       ELSE /\ pc' = "closed"
            /\ UNCHANGED <<cache, cache_log, outbox, failure>>
    /\ UNCHANGED <<direct, connection, request, time, formatted_messages,
                   locals, events, connected, requests_sent, round_lines,
                   round_base, round_calls, invoked, outcomes>>

\* CacheStore without the test of full_response.
CacheStoreAlways ==
    /\ Running("store")
    /\ IF LatestUserMsg(request) # ""
       THEN \E raises \in BOOLEAN :
              IF raises
              THEN Raise("store") /\ UNCHANGED <<cache, cache_log>>
              ELSE /\ cache' = CacheSet(cache, request, full_response, time)
                   /\ cache_log' = Append(cache_log,
                                          [op |-> "set",
                                           key |-> _get_cache_key(request),
                                           response |-> full_response])
                   /\ pc' = "closed"
                   /\ UNCHANGED <<outbox, failure>>
       ELSE /\ pc' = "closed"
            /\ UNCHANGED <<cache, cache_log, outbox, failure>>
    /\ UNCHANGED <<direct, connection, request, time, formatted_messages,
                   locals, events, connected, requests_sent, round_lines,
                   round_base, round_calls, invoked, outcomes>>

\* Lines 969-972: the response is cached under the request's window; an
\* exception of the call reaches the handler of line 974, as every exception
\* of the `try` does.
CacheStore ==
    /\ Running("store")
    /\ IF full_response # <<>> /\ LatestUserMsg(request) # ""
       THEN \E raises \in BOOLEAN :
              IF raises
              THEN Raise("store") /\ UNCHANGED <<cache, cache_log>>
              ELSE /\ cache' = CacheSet(cache, request, full_response, time)
                   /\ cache_log' = Append(cache_log,
                                          [op |-> "set",
                                           key |-> _get_cache_key(request),
                                           response |-> full_response])
                   /\ pc' = "closed"
                   /\ UNCHANGED <<outbox, failure>>
       ELSE /\ pc' = "closed"
            /\ UNCHANGED <<cache, cache_log, outbox, failure>>
    /\ UNCHANGED <<direct, connection, request, time, formatted_messages,
                   locals, events, connected, requests_sent, round_lines,
                   round_base, round_calls, invoked, outcomes>>

(***************************************************************************)
(* The client of the generator: it consumes the event of a `yield` and     *)
(* resumes the generator, or closes it at that `yield`.                    *)
(***************************************************************************)
Deliver ==
    /\ connected
    /\ outbox # <<>>
    /\ events' = Append(events, Head(outbox))
    /\ outbox' = Tail(outbox)
    /\ UNCHANGED <<direct, connection, pc, request, time, cache, formatted_messages, locals,
                   connected, history, failure>>

\* ClientClose that leaves the backend response of the round open.
ClientCloseLeaking ==
    /\ connected
    /\ outbox # <<>>
    /\ events' = Append(events, Head(outbox))
    /\ outbox' = <<>>
    /\ connected' = FALSE
    /\ pc' = "closed"
    /\ UNCHANGED <<direct, connection, request, time, cache,
                   formatted_messages, locals, history, failure>>

\* Closing raises GeneratorExit at the `yield`, which no handler of the
\* generator catches: it leaves the `async with` blocks of lines 751 and 792
\* when the yield is inside them.
ClientClose ==
    /\ connected
    /\ outbox # <<>>
    /\ events' = Append(events, Head(outbox))
    /\ outbox' = <<>>
    /\ connected' = FALSE
    /\ pc' = "closed"
    /\ connection' = FALSE
    /\ UNCHANGED <<direct, request, time, cache, formatted_messages, locals, history,
                   failure>>

Next ==
    \/ Prepare
    \/ TemplateCheck
    \/ CacheLookup
    \/ SelectTools
    \/ OpenRound(Backend(Len(requests_sent) + 1))
    \/ ReadLine
    \/ EndOfStream
    \/ TransportError
    \/ ExtractToolCalls
    \/ StartTool
    \/ CallTool
    \/ SendDone
    \/ CacheStore
    \/ Deliver
    \/ ClientClose

Spec == Init /\ [][Next]_vars

NextChunked ==
    \/ Prepare
    \/ TemplateCheck
    \/ CacheLookup
    \/ SelectTools
    \/ OpenRound(ChunkedBackend(Len(requests_sent) + 1))
    \/ ReadLine
    \/ EndOfStream
    \/ TransportError
    \/ ExtractToolCalls
    \/ StartTool
    \/ CallTool
    \/ SendDone
    \/ CacheStore
    \/ Deliver
    \/ ClientClose

\* The chunking scenarios start from a request that no template matches and
\* an empty cache.
InitChunked ==
    /\ Init
    /\ request = <<[role |-> "user", content |-> "open youtube"]>>
    /\ cache = <<>>
    /\ time = 0

SpecChunked == InitChunked /\ [][NextChunked]_vars

NextTagged ==
    \/ Prepare
    \/ TemplateCheck
    \/ CacheLookup
    \/ SelectTools
    \/ OpenRound(TaggedBackend(Len(requests_sent) + 1))
    \/ ReadLine
    \/ EndOfStream
    \/ TransportError
    \/ ExtractToolCalls
    \/ StartTool
    \/ CallTool
    \/ SendDone
    \/ CacheStore
    \/ Deliver
    \/ ClientClose

SpecTagged == InitChunked /\ [][NextTagged]_vars

(***************************************************************************)
(* The loop of lines 823-865 taken one iteration at a time, on a buffer    *)
(* of any content.                                                         *)
(***************************************************************************)
\* What a buffer is made of: plain text, two tags, a tag never closed, a
\* closing marker, an opening marker without '>', and an opening marker
\* closed at once.
ScanSegments ==
    { <<"a">>, TagX, TagBad, TagOpen, CloseMarker, OpenMarker,
      OpenMarker \o <<">">> }

RECURSIVE BuffersOf(_)
BuffersOf(n) ==
    IF n = 0 THEN { <<>> }
    ELSE { b \o g : b \in BuffersOf(n - 1), g \in ScanSegments \cup { <<>> } }

Buffers == BuffersOf(MaxSegments) \ { <<>> }

\* Line 820: a chunk has been appended and the loop is entered.
AppendChunk ==
    /\ pc = "start"
    /\ \E buf \in Buffers :
          /\ display_buffer' = buf
          /\ round_lines' = <<[content |-> buf, tool_calls |-> <<>>]>>
    /\ pc' = "scan"
    /\ UNCHANGED <<direct, connection, request, time, cache,
                   formatted_messages, full_response, iteration_response,
                   tool_calls_found, tool_calls, tool_index, tool_iteration,
                   stream, outbox, events, connected, requests_sent,
                   round_base, round_calls, invoked, outcomes, cache_log,
                   failure>>

\* ScanIteration that keeps the tag in the buffer.
ScanIterationKeepsTag ==
    /\ pc = "scan"
    /\ IF ~Contains(OpenMarker, display_buffer)
       THEN /\ outbox' = outbox \o Passthrough(
                    IF display_buffer # <<>> THEN <<display_buffer>> ELSE <<>>)
            /\ display_buffer' = <<>>
            /\ pc' = "scanned"
       ELSE IF Contains(CloseMarker, display_buffer)
                  /\ TagSearch(display_buffer).found
       THEN LET m == TagSearch(display_buffer)
            IN  /\ outbox' = outbox \o Passthrough(
                        IF m.before # <<>> THEN <<m.before>> ELSE <<>>)
                /\ display_buffer' = m.tag \o m.after
                /\ pc' = "scan"
       ELSE /\ pc' = "scanned"
            /\ UNCHANGED <<outbox, display_buffer>>
    /\ UNCHANGED <<direct, connection, request, time, cache,
                   formatted_messages, full_response, iteration_response,
                   tool_calls_found, tool_calls, tool_index, tool_iteration,
                   stream, events, connected, history, failure>>

\* One iteration of `while True`: the break of line 836 after the whole
\* buffer was yielded, the next buffer of line 858, or the breaks of lines
\* 862 and 865.
ScanIteration ==
    /\ pc = "scan"
    /\ IF ~Contains(OpenMarker, display_buffer)
       THEN /\ outbox' = outbox \o Passthrough(
                    IF display_buffer # <<>> THEN <<display_buffer>> ELSE <<>>)
            /\ display_buffer' = <<>>
            /\ pc' = "scanned"
       ELSE IF Contains(CloseMarker, display_buffer)
                  /\ TagSearch(display_buffer).found
       THEN LET m == TagSearch(display_buffer)
            IN  /\ outbox' = outbox \o Passthrough(
                        IF m.before # <<>> THEN <<m.before>> ELSE <<>>)
                /\ display_buffer' = m.after
                /\ pc' = "scan"
       ELSE /\ pc' = "scanned"
            /\ UNCHANGED <<outbox, display_buffer>>
    /\ UNCHANGED <<direct, connection, request, time, cache,
                   formatted_messages, full_response, iteration_response,
                   tool_calls_found, tool_calls, tool_index, tool_iteration,
                   stream, events, connected, history, failure>>

NextScan ==
    \/ AppendChunk
    \/ ScanIteration

SpecScan == InitChunked /\ [][NextScan]_vars

\* The loop holds no await: an iteration that can run does run.
SpecScanLive == SpecScan /\ WF_vars(NextScan)

(***************************************************************************)
(* The shared cache as the requests of the process use it: every request   *)
(* looks its window up (line 693) and may store a text under it (line      *)
(* 971).  The calls are made on the event loop and hold no `await`, so     *)
(* each is one step, and requests in flight at the same time interleave    *)
(* them in any order.                                                      *)
(***************************************************************************)
Msg(content) == [role |-> "user", content |-> content]

RECURSIVE Question(_)
Question(n) == IF n <= 1 THEN "q" ELSE "q" \o Question(n - 1)

\* A conversation longer than the window of three messages.
Conversation(first) == <<Msg(first), Msg("a"), Msg("b"), Msg("c")>>

\* The message lists of the requests: max_size + 1 windows, one of them
\* reached by two conversations that differ before the window.
CacheKeyLists ==
    { <<Msg(Question(n))>> : n \in 1..max_size } \cup { Conversation("h1") }

\* The same with a second conversation that ends as the first one does.
CacheLists == CacheKeyLists \cup { Conversation("h2") }

\* The texts a request may have generated.
CacheTexts == { <<"o", "k">>, <<"n", "o">> }

\* The keys of the entries of c that c2 no longer holds.
RemovedKeys(c, c2) ==
    {c[i].key : i \in {j \in 1..Len(c) : CacheIndex(c2, c[j].key) = 0}}

\* The record of a call on the cache: what was asked, when, the response
\* looked up or stored (<<>> for None) and the keys the call removed.
CallRecord(op, messages, response, after) ==
    [op |-> op, key |-> _get_cache_key(messages), messages |-> messages,
     response |-> response, at |-> time,
     removed |-> RemovedKeys(cache, after)]

\* The clock of the cache scenarios runs until an entry stored at the start
\* is older than ttl_seconds.
CacheMaxTime == ttl_seconds + 1

\* The variables of the request that is followed through its rounds.
orchestrator ==
    <<pc, request, formatted_messages, locals, outbox, events, connected,
      requests_sent, round_lines, round_base, round_calls, invoked, outcomes,
      failure, connection, direct>>

\* The log with the new call; without `keep` it holds the latest call only.
Logged(call, keep) == (IF keep THEN cache_log ELSE <<>>) \o <<call>>

\* Line 693: response_cache.get(request.messages) of some request.
Lookup(messages, keep) ==
    /\ LET got == CacheGet(cache, messages, time)
       IN  /\ cache' = got.cache
           /\ cache_log' =
                  Logged(CallRecord("get", messages, got.response,
                                    got.cache), keep)
    /\ UNCHANGED <<orchestrator, time>>

\* Lines 970-971: response_cache.set(request.messages, full_response) of
\* some request; an empty text is not stored.
Store(messages, response, keep) ==
    /\ response # <<>>
    /\ LatestUserMsg(messages) # ""
    /\ cache' = CacheSet(cache, messages, response, time)
    /\ cache_log' = Logged(CallRecord("set", messages, response,
                                      CacheSet(cache, messages, response,
                                               time)), keep)
    /\ UNCHANGED <<orchestrator, time>>

\* Lines 1286-1288 and 1312-1313: response_cache.cache.clear().
DeleteConversations ==
    /\ cache' = <<>>
    /\ cache_log' = <<[op |-> "clear", key |-> <<>>, messages |-> <<>>,
                       response |-> <<>>, at |-> time,
                       removed |-> RemovedKeys(cache, <<>>)]>>
    /\ UNCHANGED <<orchestrator, time>>

\* time.time() moves on between two calls.
Tick ==
    /\ time < CacheMaxTime
    /\ time' = time + 1
    /\ UNCHANGED <<orchestrator, cache, cache_log>>

\* The process has started: the cache is empty (line 157).
InitCache ==
    /\ Init
    /\ request = <<Msg("open youtube")>>
    /\ cache = <<>>
    /\ time = 0

NextCache ==
    \/ \E m \in CacheKeyLists : Lookup(m, FALSE)
    \/ \E m \in CacheKeyLists : Store(m, <<"o", "k">>, FALSE)
    \/ DeleteConversations
    \/ Tick

SpecCache == InitCache /\ [][NextCache]_vars

\* The number of calls of the scenarios that log every call: enough to
\* fill the cache from empty and store once more.
FillLength == max_size + 1

NextFill ==
    \/ \E m \in CacheLists :
          /\ Len(cache_log) < FillLength
          /\ Lookup(m, TRUE)
    \/ \E m \in CacheLists, r \in CacheTexts :
          /\ Len(cache_log) < FillLength
          /\ Store(m, r, TRUE)
    \/ /\ Len(cache_log) \in 1..(FillLength - 1)
       /\ Tick

SpecFill == InitCache /\ [][NextFill]_vars

\* Message lists whose contents hold the text that the key string puts
\* between two messages: a role and a colon.
SplitLists ==
    { <<Msg("a"), Msg("b")>>, <<Msg("auser:b")>>, <<Msg("a")>>, <<Msg("b")>> }

NextKeys ==
    \/ \E m \in SplitLists :
          /\ Len(cache_log) < FillLength
          /\ Lookup(m, TRUE)
    \/ \E m \in SplitLists :
          /\ Len(cache_log) < FillLength
          /\ Store(m, <<"o", "k">>, TRUE)
    \/ /\ Len(cache_log) \in 1..(FillLength - 1)
       /\ Tick

SpecKeys == InitCache /\ [][NextKeys]_vars

\* Lines 122-154: the attributes of the object that line 157 binds to the
\* name response_cache, after the import of line 37 bound it first.
ResponseCacheAttributes ==
    { "cache", "max_size", "ttl_seconds", "_get_cache_key", "get", "set" }

\* Lines 1432-1439: clear_cache.  response_cache.clear() raises
\* AttributeError when the object has no such attribute, and the handler
\* answers with the status "error".
clear_cache ==
    /\ Len(cache_log) < FillLength
    /\ LET cleared == "clear" \in ResponseCacheAttributes
       IN  /\ cache' = IF cleared THEN <<>> ELSE cache
           /\ cache_log' =
                  Append(cache_log,
                         [op |-> "clear_cache", key |-> <<>>,
                          messages |-> <<>>,
                          response |-> IF cleared THEN <<"success">>
                                       ELSE <<"error">>,
                          at |-> time,
                          removed |-> IF cleared
                                      THEN RemovedKeys(cache, <<>>)
                                      ELSE {}])
    /\ UNCHANGED <<orchestrator, time>>

NextClear ==
    \/ \E m \in CacheKeyLists :
          /\ Len(cache_log) < FillLength
          /\ Lookup(m, TRUE)
    \/ \E m \in CacheKeyLists :
          /\ Len(cache_log) < FillLength
          /\ Store(m, <<"o", "k">>, TRUE)
    \/ clear_cache
    \/ /\ Len(cache_log) \in 1..(FillLength - 1)
       /\ Tick

SpecClear == InitCache /\ [][NextClear]_vars

\* The number of times the conversations are deleted while the request is
\* followed.
MaxDeletions == 1

\* The deletions made so far.
Deletions == SelectSeq(cache_log, LAMBDA call : call.op = "clear")

\* Lines 1301-1322: delete_all_conversations, called by another client.  The
\* handler holds no `await`: it runs as one step, between two steps of the
\* generator of the request.  `started` records whether the request was
\* running by then.
delete_all_conversations ==
    /\ Len(Deletions) < MaxDeletions
    /\ cache' = <<>>
    /\ cache_log' = Append(cache_log,
                           [op |-> "clear", key |-> <<>>, response |-> <<>>,
                            started |-> pc # "start"])
    /\ UNCHANGED <<orchestrator, time>>

\* The rounds of the deletion scenarios: an answer in plain text, or a call
\* of one tool.
DeleteBackend(k) ==
    { Round(<<"o", "k">>, <<>>, 1),
      Round(<<>>, <<StructuredCall(<<"s">>)>>, 1) }

NextDelete ==
    \/ Prepare
    \/ TemplateCheck
    \/ CacheLookup
    \/ SelectTools
    \/ OpenRound(DeleteBackend(Len(requests_sent) + 1))
    \/ ReadLine
    \/ EndOfStream
    \/ TransportError
    \/ ExtractToolCalls
    \/ StartTool
    \/ CallTool
    \/ SendDone
    \/ CacheStore
    \/ Deliver
    \/ ClientClose
    \/ delete_all_conversations

SpecDelete == InitChunked /\ [][NextDelete]_vars

(***************************************************************************)
(* chat_stream (lines 352-437): _model.generate runs in a thread and puts  *)
(* its tokens in the streamer's queue; the generator handed to the         *)
(* StreamingResponse takes them from the queue and yields them.            *)
(***************************************************************************)
\* The state of the chat endpoint, which chat_stream does not touch.
chat == <<pc, request, time, cache, formatted_messages, locals, outbox,
          events, connected, history, failure, connection>>

\* The signal the streamer puts in its queue when the generation has ended.
stop_signal == "<stop>"

\* Lines 417-435: the thread is started and the generator is handed to the
\* response; none of its code has run yet.
StartGeneration ==
    /\ thread = "none"
    /\ thread' = "alive"
    /\ token_generator' = "created"
    /\ UNCHANGED <<chat, text_queue, new_tokens, body>>

\* The thread generates a token; max_new_tokens bounds their number.
GenerateToken ==
    /\ thread = "alive"
    /\ new_tokens < MaxTokens
    /\ new_tokens' = new_tokens + 1
    /\ text_queue' = Append(text_queue, "t")
    /\ UNCHANGED <<chat, thread, token_generator, body>>

\* The generation ends, at the bound or before it: the streamer gets the
\* stop signal, and generate has still to return.
EndGeneration ==
    /\ thread = "alive"
    /\ text_queue' = Append(text_queue, stop_signal)
    /\ thread' = "ending"
    /\ UNCHANGED <<chat, new_tokens, token_generator, body>>

\* generate returns and the thread is over.
ThreadExit ==
    /\ thread = "ending"
    /\ thread' = "dead"
    /\ UNCHANGED <<chat, text_queue, new_tokens, token_generator, body>>

\* Lines 423-424: the next token of the streamer is yielded to the client.
NextToken ==
    /\ token_generator \in {"created", "yielded"}
    /\ text_queue # <<>>
    /\ Head(text_queue) # stop_signal
    /\ body' = Append(body, Head(text_queue))
    /\ text_queue' = Tail(text_queue)
    /\ token_generator' = "yielded"
    /\ UNCHANGED <<chat, thread, new_tokens>>

\* Lines 423-429: the streamer stops the iteration; thread.join(timeout=0.5)
\* returns when the thread is over or when the time is up, whichever is
\* first, and the generator ends.
StreamingComplete ==
    /\ token_generator \in {"created", "yielded"}
    /\ text_queue # <<>>
    /\ Head(text_queue) = stop_signal
    /\ text_queue' = Tail(text_queue)
    /\ token_generator' = "ended"
    /\ UNCHANGED <<chat, thread, new_tokens, body>>

\* The client goes away while the generator is suspended at the yield of
\* line 424: closing it runs the `finally` of line 428, a join that waits
\* half a second at most.
ClientDisconnect ==
    /\ token_generator = "yielded"
    /\ token_generator' = "ended"
    /\ UNCHANGED <<chat, thread, text_queue, new_tokens, body>>

\* The response is dropped before its body is iterated: a generator that
\* has not started runs none of its code when it is closed.
NeverConsumed ==
    /\ token_generator = "created"
    /\ token_generator' = "ended"
    /\ UNCHANGED <<chat, thread, text_queue, new_tokens, body>>

NextDirect ==
    \/ StartGeneration
    \/ GenerateToken
    \/ EndGeneration
    \/ ThreadExit
    \/ NextToken
    \/ StreamingComplete
    \/ ClientDisconnect
    \/ NeverConsumed

SpecDirect == InitCache /\ [][NextDirect]_vars

\* The generator has ended and the client has consumed all it yielded.
Finished == pc \in {"closed", "crashed"} /\ outbox = <<>>

(***************************************************************************)
(* What the properties below speak about.                                  *)
(***************************************************************************)
IsPrefix(p, q) == Len(p) <= Len(q) /\ SubSeq(q, 1, Len(p)) = p

\* The text and the structured calls the backend sent in the current round.
RoundText == Concat([i \in 1..Len(round_lines) |-> round_lines[i].content])

RoundReported ==
    Concat([i \in 1..Len(round_lines) |-> round_lines[i].tool_calls])

\* The texts of the events of the current round, consumed or not yet.
RoundOutput ==
    LET all == events \o outbox
    IN  [i \in 1..(Len(all) - round_base) |-> all[round_base + i].content]

\* The current round has been read to its end and all it yielded is consumed.
RoundRead == pc = "extract" /\ outbox = <<>>

\* The calls of the current round are extracted and no later round is open.
RoundFinished ==
    Len(requests_sent) >= 1 /\ Len(round_calls) = Len(requests_sent)

LastCalls == round_calls[Len(round_calls)]

NameAndArguments(call) == [name |-> call.name, arguments |-> call.arguments]

\* The calls made on the tool registry for the current round, in order.
RoundInvoked ==
    LET ThisRound(v) == v.round = Len(requests_sent)
        made == SelectSeq(invoked, ThisRound)
    IN  [i \in 1..Len(made) |-> NameAndArguments(made[i])]

Structured(found) ==
    [i \in 1..Len(found) |-> NameAndArguments(found[i].function)]

\* A text with every complete tag taken out.
RECURSIVE RemoveTags(_)
RemoveTags(text) ==
    LET m == TagSearch(text)
    IN  IF m.found THEN m.before \o RemoveTags(m.after) ELSE text

\* The text in front of the first opening marker.
PlainPrefix(text) ==
    LET i == Find(OpenMarker, text, 1)
    IN  IF i = 0 THEN text ELSE SubSeq(text, 1, i - 1)

(***************************************************************************)
(* C1: a request opens at most max_tool_iterations backend rounds, and a   *)
(* request that reaches its final event after rounds that all ended with   *)
(* tool calls has opened exactly max_tool_iterations rounds.               *)
(***************************************************************************)
C1_RoundBudget ==
    /\ Len(requests_sent) <= max_tool_iterations
    /\ (/\ pc = "store"
        /\ \A i \in 1..Len(round_calls) : round_calls[i] # <<>>)
           => Len(requests_sent) = max_tool_iterations

C1_Witness ==
    /\ pc = "store"
    /\ Len(requests_sent) = max_tool_iterations
    /\ Len(round_calls) = max_tool_iterations
    /\ \A i \in 1..Len(round_calls) : round_calls[i] # <<>>

(***************************************************************************)
(* C2: when the request reaches its final event, every round whose tool    *)
(* calls were invoked has been followed by another round: calls that are   *)
(* pending when the budget is used up are not invoked.                     *)
(***************************************************************************)
C2_InvokedRoundsContinue ==
    pc = "store" =>
        \A i \in 1..Len(invoked) : invoked[i].round < Len(requests_sent)

(***************************************************************************)
(* C3: a request that has ended with its client still connected has        *)
(* delivered an event with done=true.                                      *)
(***************************************************************************)
C3_TerminatingEvent ==
    (Finished /\ connected) => \E i \in 1..Len(events) : events[i].done

(***************************************************************************)
(* C4: a transport failure ends the request with the error event as its    *)
(* only event with done=true and its last event; from then on no round is  *)
(* opened, no tool is invoked and nothing more is yielded.                 *)
(***************************************************************************)
C4_TransportFailure ==
    [][failure' = "transport" =>
         LET all == events' \o outbox'
         IN  /\ pc' = "closed"
             /\ all # <<>>
             /\ all[Len(all)] = ErrorEvent("transport")
             /\ \A i \in 1..(Len(all) - 1) : ~all[i].done
             /\ failure = "transport" =>
                    /\ requests_sent' = requests_sent
                    /\ invoked' = invoked
                    /\ all = events \o outbox]_vars

C4_Witness ==
    /\ failure = "transport"
    /\ outbox = <<>>
    /\ connected
    /\ Len(requests_sent) = 2
    /\ invoked # <<>>
    /\ Len(events) >= 2
    /\ events[Len(events)] = ErrorEvent("transport")

(***************************************************************************)
(* C5: when a round has been read whose opening markers all belong to     *)
(* complete tags, the texts passed through to the client make up the       *)
(* round's text with every complete tag removed, however the text was cut  *)
(* into lines: no part of a tag is passed through.                         *)
(***************************************************************************)
C5_TagsNeverPassThrough ==
    (RoundRead /\ ~Contains(OpenMarker, RemoveTags(RoundText)))
        => Concat(RoundOutput) = RemoveTags(RoundText)

(***************************************************************************)
(* C6: without structured calls, the calls extracted at the end of a round *)
(* are those of the round's whole text, wherever the lines cut it.         *)
(***************************************************************************)
C6_ExtractionIgnoresCuts ==
    (RoundFinished /\ RoundReported = <<>>)
        => LastCalls = parse_tool_calls(RoundText)

C6_Witness ==
    /\ RoundFinished
    /\ Len(round_lines) = 2
    /\ RoundText = TagX
    /\ Len(round_lines[1].content) < Len(OpenMarker)
    /\ Len(LastCalls) = 1
    /\ LastCalls[1].name = <<"x">>

(***************************************************************************)
(* C7: while the text of a round holds no opening marker, the texts passed *)
(* through, in order, make up exactly the text read so far.                *)
(***************************************************************************)
C7_PlainTextPassesThrough ==
    (pc \in {"stream", "extract"} /\ ~Contains(OpenMarker, RoundText))
        => Concat(RoundOutput) = RoundText

C7_Witness ==
    /\ RoundRead
    /\ Len(round_lines) = 2
    /\ ~Contains(OpenMarker, RoundText)
    /\ Contains(<<"<">>, RoundText)
    /\ Len(events) = round_base + 2

(***************************************************************************)
(* C8: when a round has been read, the plain text in front of its first    *)
(* opening marker has been passed through to the client.                   *)
(***************************************************************************)
C8_TextBeforeTagDelivered ==
    RoundRead => IsPrefix(PlainPrefix(RoundText), Concat(RoundOutput))

(***************************************************************************)
(* C9: when the backend reported structured calls in a round, the calls    *)
(* extracted are exactly those, in report order, whatever inline tags the  *)
(* text holds and whatever earlier rounds reported; they are invoked in    *)
(* that order, and all of them once the round's tools are done.            *)
(***************************************************************************)
C9_StructuredCallsOnly ==
    (RoundFinished /\ RoundReported # <<>>) =>
        /\ LastCalls = Structured(RoundReported)
        /\ IsPrefix(RoundInvoked, Structured(RoundReported))
        /\ pc \in {"loop", "store"}
               => RoundInvoked = Structured(RoundReported)

C9_Witness ==
    /\ RoundFinished
    /\ pc = "loop"
    /\ Len(requests_sent) = 2
    /\ Len(round_calls[1]) = 2
    /\ Contains(OpenMarker, RoundText)
    /\ Len(RoundReported) = 1
    /\ Len(RoundInvoked) = 1

RoundOutcomes ==
    LET ended == {i \in 1..Len(outcomes) :
                     invoked[i].round = Len(requests_sent)}
        first == Len(outcomes) - Cardinality(ended)
    IN  [i \in 1..Cardinality(ended) |-> outcomes[first + i]]

\* The executor raised or returned no result.
ToolFailed(outcome) == outcome \in {"none", "raise"}

\* The calls of the current round, as they are made on the tool registry.
LastCallsMade == [i \in 1..Len(LastCalls) |-> NameAndArguments(LastCalls[i])]

\* The rounds so far that ended with tool calls.
RoundsWithCalls == {i \in 1..Len(round_calls) : round_calls[i] # <<>>}

(***************************************************************************)
(* C11: after a round that ended with tool calls, whatever the outcome of  *)
(* each invocation, the calls are invoked in detection order and, once the *)
(* `for` loop is over with the client connected, all of them are; the      *)
(* iteration counter counts the round once, and the request has not        *)
(* failed, unless it did so later, when its response was stored.           *)
(***************************************************************************)
C11_ToolFailureContinues ==
    (RoundFinished /\ LastCalls # <<>>) =>
        /\ IsPrefix(RoundInvoked, LastCallsMade)
        /\ tool_iteration = Cardinality(RoundsWithCalls)
        /\ failure \in {"none", "store"}
        /\ failure = "store" => pc = "closed"
        /\ connected => pc \in {"tools", "calling", "loop", "store", "closed"}
        /\ (connected /\ pc \in {"loop", "store", "closed"})
               => RoundInvoked = LastCallsMade

C11_Witness ==
    /\ RoundFinished
    /\ pc = "loop"
    /\ outbox = <<>>
    /\ connected
    /\ Len(LastCalls) = 2
    /\ RoundOutcomes = <<"raise", "none">>
    /\ Len(RoundInvoked) = 2
    /\ tool_iteration = 1

\* The tool-result entries of a message list that hold the failure marker.
FailureEntries(messages) ==
    {j \in 1..Len(messages) :
        /\ messages[j].role = "tool"
        /\ messages[j].content = "Tool execution failed"}

\* The invocations that have ended in a failure.
FailedInvocations == {i \in 1..Len(outcomes) : ToolFailed(outcomes[i])}

(***************************************************************************)
(* C12: the message list holds one tool-result entry with the failure      *)
(* marker for every invocation that has failed, and a round opened after   *)
(* a failure sends such an entry to the backend.                           *)
(***************************************************************************)
C12_FailureRecorded ==
    /\ Cardinality(FailureEntries(formatted_messages))
           = Cardinality(FailedInvocations)
    /\ (pc = "stream" /\ FailedInvocations # {})
           => FailureEntries(requests_sent[Len(requests_sent)]) # {}

\* The events among the first n yielded that are inline tool errors.
ToolErrorsIn(n) ==
    LET all == events \o outbox
    IN  {j \in 1..n :
            /\ ~all[j].done
            /\ all[j].content # <<>>
            /\ Head(all[j].content) = "[Tool: "}

(***************************************************************************)
(* C13: the client is sent one inline tool error event for every           *)
(* invocation that has failed, and while a round is open these events all  *)
(* come before the events of that round.                                   *)
(***************************************************************************)
C13_FailureReported ==
    /\ Cardinality(ToolErrorsIn(Len(events) + Len(outbox)))
           = Cardinality(FailedInvocations)
    /\ pc = "stream"
           => Cardinality(ToolErrorsIn(round_base))
                  = Cardinality(FailedInvocations)

\* The invocations that have ended without raising, in order.
Answered ==
    LET NotRaised(i) == outcomes[i] # "raise"
    IN  SelectSeq([i \in 1..Len(outcomes) |-> i], NotRaised)

(***************************************************************************)
(* C14: the message list of every round is a prefix of the list of the     *)
(* round after it and of the current list; the current list is the first   *)
(* round's list followed, for every invocation that returned, in the order *)
(* of the invocations, by one assistant entry holding that one call and    *)
(* then one tool-result entry naming its tool, and by nothing else.        *)
(***************************************************************************)
C14_MessagesAppendOnly ==
    requests_sent # <<>> =>
        LET base == Len(requests_sent[1])
        IN  /\ \A k \in 1..(Len(requests_sent) - 1) :
                   IsPrefix(requests_sent[k], requests_sent[k + 1])
            /\ IsPrefix(requests_sent[Len(requests_sent)], formatted_messages)
            /\ Len(formatted_messages) = base + 2 * Len(Answered)
            /\ \A n \in 1..Len(Answered) :
                   LET call == invoked[Answered[n]]
                       asst == formatted_messages[base + 2 * n - 1]
                       tool == formatted_messages[base + 2 * n]
                   IN  /\ asst.role = "assistant"
                       /\ asst.tool_calls =
                              <<[function |-> NameAndArguments(call)]>>
                       /\ tool.role = "tool"
                       /\ tool.tool_name = call.name
                       /\ outcomes[Answered[n]] = "result"
                              => tool.content = "json.dumps(result)"

C14_Witness ==
    /\ Len(requests_sent) = 3
    /\ Len(outcomes) = 3
    /\ outcomes[1] = "result"
    /\ outcomes[2] = "raise"
    /\ outcomes[3] = "result"
    /\ invoked[1].name # invoked[3].name
    /\ Len(requests_sent[2]) = Len(requests_sent[1]) + 2
    /\ Len(requests_sent[3]) = Len(requests_sent[1]) + 4

(***************************************************************************)
(* C15: when the tools of a round whose text is not empty have been        *)
(* executed, an entry appended to the message list since the first round   *)
(* is an assistant entry with content, so that the next round's request    *)
(* holds the text of the round.                                            *)
(***************************************************************************)
C15_RoundTextInMessages ==
    (RoundFinished /\ pc = "loop" /\ RoundText # <<>>) =>
        \E j \in (Len(requests_sent[1]) + 1)..Len(formatted_messages) :
            /\ formatted_messages[j].role = "assistant"
            /\ formatted_messages[j].content # ""

\* The invocations made that have not ended.
InFlight == Len(invoked) - Len(outcomes)

(***************************************************************************)
(* C16: at most one tool invocation is in flight; while one is, the        *)
(* generator waits for it with no backend round open, every invocation     *)
(* made before it has ended, and the invocations of the round so far are   *)
(* the first calls of the round in detection order.                        *)
(***************************************************************************)
C16_OneToolInFlight ==
    /\ InFlight \in {0, 1}
    /\ pc = "stream" => InFlight = 0
    /\ InFlight = 1 =>
           /\ pc = "calling"
           /\ stream = NoStream
           /\ RoundFinished
           /\ Len(RoundInvoked) = tool_index
           /\ Len(RoundOutcomes) = tool_index - 1
           /\ IsPrefix(RoundInvoked, LastCallsMade)

C16_Witness ==
    /\ pc = "calling"
    /\ InFlight = 1
    /\ Len(requests_sent) = 2
    /\ tool_index = 2
    /\ RoundOutcomes = <<"raise">>
    /\ RoundInvoked = LastCallsMade

(***************************************************************************)
(* C17: an error raised by the template matcher or by the cache lookup is  *)
(* never reported to the client as an error event, and a request in which  *)
(* one was raised does not end before it has opened a backend round.       *)
(***************************************************************************)
C17_LookupErrorIsMiss ==
    /\ \A e \in {ErrorEvent("template"), ErrorEvent("cache")} :
           /\ \A i \in 1..Len(events) : events[i] # e
           /\ \A i \in 1..Len(outbox) : outbox[i] # e
    /\ (failure \in {"template", "cache"} /\ pc = "closed")
           => requests_sent # <<>>

(***************************************************************************)
(* What the properties of the short circuits speak about.                  *)
(***************************************************************************)
\* The template the matcher returns for the request, "" when none.
Matched == find_matching_template(LatestUserMsg(request))

\* Every event yielded so far, consumed or not.
Yielded == events \o outbox

(***************************************************************************)
(* C18: for a request whose latest user text a template matches, the       *)
(* cache is never looked up nor written, no round is opened and no tool is *)
(* invoked, and when the matcher has returned the request is over with     *)
(* the template event, done=true, as its only event.                       *)
(***************************************************************************)
C18_TemplateShortCircuit ==
    Matched # "" =>
        /\ cache_log = <<>>
        /\ cache \in InitialCaches(request)
        /\ requests_sent = <<>>
        /\ invoked = <<>>
        /\ pc \in {"start", "template", "closed", "crashed"}
        /\ (pc = "closed" /\ failure = "none")
               => /\ Yielded = <<TemplateEvent(Matched)>>
                  /\ Yielded[1].done

C18_Witness ==
    /\ Matched # ""
    /\ Finished
    /\ connected
    /\ failure = "none"
    /\ events = <<TemplateEvent(Matched)>>
    /\ CacheGet(cache, request, time).hit

\* The live entry the cache holds for the request's window, 0 when none.
LiveEntry ==
    LET i == CacheIndex(cache, _get_cache_key(request))
    IN  IF i # 0 /\ time - cache[i].timestamp < ttl_seconds THEN i ELSE 0

\* The lookup of the request has returned a response.
CacheHit == cache_log # <<>> /\ cache_log[1].response # <<>>

(***************************************************************************)
(* C19: the lookup that finds a live entry for the request's window ends   *)
(* the request with one event, done=true, carrying the entry's text, and   *)
(* leaves the cache as it was; after a hit the cache stays as it is, no    *)
(* round is opened, no tool is invoked and nothing more is yielded.        *)
(***************************************************************************)
C19_CacheHit ==
    [][/\ (cache_log = <<>> /\ cache_log' # <<>> /\ LiveEntry # 0) =>
              /\ cache' = cache
              /\ pc' = "closed"
              /\ events' \o outbox' = <<CachedEvent(cache[LiveEntry].response)>>
              /\ outbox'[1].done
              /\ requests_sent' = <<>>
              /\ invoked' = <<>>
       /\ CacheHit =>
              /\ cache' = cache
              /\ cache_log' = cache_log
              /\ pc' = "closed"
              /\ requests_sent' = requests_sent
              /\ invoked' = invoked
              /\ events' \o outbox' = events \o outbox]_vars

C19_Witness ==
    /\ CacheHit
    /\ Matched = ""
    /\ Finished
    /\ connected
    /\ time > 0
    /\ events = <<CachedEvent(<<"o", "k">>)>>
    /\ cache \in InitialCaches(request)
    /\ cache # <<>>
    /\ requests_sent = <<>>

\* The last call made on the cache.
LastCacheCall == cache_log[Len(cache_log)]

(***************************************************************************)
(* C20: when a request has written its response to the cache, the key      *)
(* written is the key looked up at entry, whatever was appended to the     *)
(* message list during the rounds, and a lookup for the same request at    *)
(* that moment is a hit that returns the text written.                     *)
(***************************************************************************)
C20_StoredUnderRequestKey ==
    (cache_log # <<>> /\ LastCacheCall.op = "set") =>
        /\ cache_log[1].op = "get"
        /\ LastCacheCall.key = cache_log[1].key
        /\ LastCacheCall.response = full_response
        /\ CacheGet(cache, request, time)
               = [hit |-> TRUE, response |-> full_response, cache |-> cache]

C20_Witness ==
    /\ pc = "closed"
    /\ Len(cache_log) = 2
    /\ LastCacheCall.op = "set"
    /\ Len(requests_sent) = 2
    /\ Len(formatted_messages) > Len(requests_sent[1])
    /\ full_response = <<"o", "k">>
    /\ CacheGet(cache, request, time).response = <<"o", "k">>

(***************************************************************************)
(* C21: once the iteration counter has reached max_tool_iterations the     *)
(* request does not fail before its response is stored and yields no event *)
(* with done=true other than the completion event up to there; when it has *)
(* ended with its client connected and the store did not fail, the         *)
(* completion event is its last event and the text of all rounds, if any,  *)
(* is in the cache under the request's window, stored at the current time. *)
(***************************************************************************)
C21_BudgetExhaustionIsDone ==
    tool_iteration >= max_tool_iterations =>
        /\ failure \in {"none", "store"}
        /\ failure = "none" =>
               \A i \in 1..Len(Yielded) :
                   Yielded[i].done => Yielded[i] = DoneEvent
        /\ (pc = "closed" /\ connected /\ failure = "none") =>
               /\ Yielded # <<>>
               /\ Yielded[Len(Yielded)] = DoneEvent
               /\ IF full_response # <<>>
                  THEN LET i == CacheIndex(cache, _get_cache_key(request))
                       IN  /\ i # 0
                           /\ cache[i].response = full_response
                           /\ cache[i].timestamp = time
                  ELSE \A i \in 1..Len(cache_log) : cache_log[i].op # "set"

C21_Witness ==
    /\ tool_iteration = max_tool_iterations
    /\ pc = "closed"
    /\ connected
    /\ Len(requests_sent) = max_tool_iterations
    /\ full_response # <<>>
    /\ LastCacheCall.op = "set"
    /\ LastCacheCall.response = full_response
    /\ events[Len(events)] = DoneEvent

(***************************************************************************)
(* What the properties of the cache speak about.                           *)
(***************************************************************************)
\* The roles and contents of the last three messages of a list.
Window(messages) ==
    LET n == Len(messages)
        from == IF n >= 3 THEN n - 2 ELSE 1
    IN  [i \in 1..(n - from + 1) |->
            <<messages[from + i - 1].role, messages[from + i - 1].content>>]

\* Every call logged is a store, and no two are under the same key.
DistinctStores ==
    /\ \A i \in 1..Len(cache_log) : cache_log[i].op = "set"
    /\ \A i, j \in 1..Len(cache_log) :
           i # j => cache_log[i].key # cache_log[j].key

\* A key has an entry in the cache.
Holds(key) == CacheIndex(cache, key) # 0

\* The entry of a key in a cache that has one.
EntryOf(c, key) == c[CacheIndex(c, key)]

\* The smallest timestamp of a non-empty cache.
MinTimestamp(c) ==
    CHOOSE t \in {c[i].timestamp : i \in 1..Len(c)} :
        \A i \in 1..Len(c) : t <= c[i].timestamp

\* The latest call on the cache.
LatestCall == cache_log[Len(cache_log)]

(***************************************************************************)
(* C22: after max_size + 1 stores under distinct keys into the empty       *)
(* cache, and nothing else, the cache holds exactly max_size entries: the  *)
(* entry of the first store is absent and those of the later stores are    *)
(* present with the texts stored.                                          *)
(***************************************************************************)
C22_FillEvictsFirst ==
    (Len(cache_log) = max_size + 1 /\ DistinctStores) =>
        /\ Len(cache) = max_size
        /\ ~Holds(cache_log[1].key)
        /\ \A i \in 2..Len(cache_log) :
               /\ Holds(cache_log[i].key)
               /\ EntryOf(cache, cache_log[i].key).response
                      = cache_log[i].response

C22_Witness ==
    /\ Len(cache_log) = max_size + 1
    /\ DistinctStores
    /\ cache_log[1].at = cache_log[2].at
    /\ cache_log[Len(cache_log)].at > cache_log[2].at
    /\ Len(cache) = max_size
    /\ cache_log[Len(cache_log)].removed # {}

\* The step is a store that changed the cache.
StoreStep == cache' # cache /\ cache_log' # <<>> /\ cache_log'[1].op = "set"

\* The step is a lookup that returned a text.
HitStep == cache_log' # <<>> /\ cache_log'[1].op = "get"
              /\ cache_log'[1].response # <<>>

(***************************************************************************)
(* C23: under any sequence of lookups and stores the cache holds at most   *)
(* max_size entries, and a store into a full cache removes exactly one     *)
(* entry, one whose timestamp is minimal among the entries held before it. *)
(***************************************************************************)
C23_BoundedOldestEvicted ==
    /\ [](Len(cache) <= max_size)
    /\ [][StoreStep =>
            /\ Cardinality(RemovedKeys(cache, cache')) <= 1
            /\ \A k \in RemovedKeys(cache, cache') :
                   EntryOf(cache, k).timestamp = MinTimestamp(cache)
            /\ (Len(cache) = max_size /\ ~Holds(cache_log'[1].key)) =>
                   /\ Cardinality(RemovedKeys(cache, cache')) = 1
                   /\ Len(cache') = max_size]_vars

C23_Witness ==
    /\ cache_log # <<>>
    /\ LatestCall.op = "set"
    /\ LatestCall.removed # {}
    /\ Len(cache) = max_size
    /\ \E i \in 1..Len(cache) :
           cache[i].key # LatestCall.key /\ cache[i].timestamp > 0

Expired(entry) == time - entry.timestamp > ttl_seconds

\* The step is a lookup under the key.
LookupStep(key) == cache_log' # <<>> /\ cache_log'[1].op = "get"
                      /\ cache_log'[1].key = key /\ cache_log'[1].at = time
                      /\ time' = time

\* A lookup of an expired entry is a miss and removes it.
ExpiredLookupRemoves ==
    \A i \in 1..Len(cache) :
        (Expired(cache[i]) /\ LookupStep(cache[i].key)
            /\ (cache' # cache \/ cache_log' # cache_log)) =>
            /\ cache_log'[1].response = <<>>
            /\ cache' = CacheDelete(cache, i)

\* A key without an entry gets one only by a store under it.
AbsentUntilStored ==
    \A m \in CacheLists :
        (CacheIndex(cache, _get_cache_key(m)) = 0
            /\ CacheIndex(cache', _get_cache_key(m)) # 0) =>
            /\ cache_log'[1].op = "set"
            /\ cache_log'[1].key = _get_cache_key(m)

(***************************************************************************)
(* C25 as stated: a lookup more than ttl_seconds after the store is a miss *)
(* and removes the entry, the key stays absent until it is stored again,   *)
(* and an expired entry leaves the cache only by such a lookup.            *)
(***************************************************************************)
C25_ExpiredRemovedOnlyByLookup ==
    [][/\ ExpiredLookupRemoves
       /\ AbsentUntilStored
       /\ \A i \in 1..Len(cache) :
              (Expired(cache[i]) /\ cache[i].key \in RemovedKeys(cache, cache'))
                  => LookupStep(cache[i].key)]_vars

(***************************************************************************)
(* C25: a lookup more than ttl_seconds after the store is a miss and       *)
(* removes the entry, the key stays absent until it is stored again, and   *)
(* an expired entry leaves the cache only by such a lookup, by the         *)
(* eviction of a store into a full cache, or when the cache is cleared.    *)
(***************************************************************************)
C25_ExpiredLookupIsMiss ==
    [][/\ ExpiredLookupRemoves
       /\ AbsentUntilStored
       /\ \A i \in 1..Len(cache) :
              (Expired(cache[i]) /\ cache[i].key \in RemovedKeys(cache, cache'))
                  => \/ LookupStep(cache[i].key)
                     \/ /\ cache_log'[1].op = "set"
                        /\ Len(cache) = max_size
                        /\ cache[i].timestamp = MinTimestamp(cache)
                     \/ cache_log'[1].op = "clear"]_vars

C25_Witness ==
    /\ cache_log # <<>>
    /\ LatestCall.op = "get"
    /\ LatestCall.response = <<>>
    /\ LatestCall.removed = {LatestCall.key}
    /\ LatestCall.at = time
    /\ time > ttl_seconds
    /\ ~Holds(LatestCall.key)

\* Call j of the log is a lookup, call i before it a store for a list with
\* the same window, less than ttl_seconds earlier, and between the two no call
\* evicted that entry or stored for the window again.
StoredThenLookedUp(i, j) ==
    /\ i < j
    /\ cache_log[i].op = "set"
    /\ cache_log[j].op = "get"
    /\ Window(cache_log[i].messages) = Window(cache_log[j].messages)
    /\ cache_log[j].at - cache_log[i].at < ttl_seconds
    /\ \A k \in (i + 1)..(j - 1) :
           /\ cache_log[i].key \notin cache_log[k].removed
           /\ cache_log[k].op = "set" =>
                  Window(cache_log[k].messages) # Window(cache_log[i].messages)

(***************************************************************************)
(* C26: a lookup returns the text stored for any message list whose last   *)
(* three messages (all of them when there are fewer) have the same roles   *)
(* and contents, as long as the entry is younger than ttl_seconds and was  *)
(* not evicted; the earlier messages of the two lists do not matter.       *)
(***************************************************************************)
C26_KeyIsLastThree ==
    \A i, j \in 1..Len(cache_log) :
        StoredThenLookedUp(i, j) =>
            cache_log[j].response = cache_log[i].response

C26_Witness ==
    \E i, j \in 1..Len(cache_log) :
        /\ StoredThenLookedUp(i, j)
        /\ cache_log[i].messages # cache_log[j].messages
        /\ Len(cache_log[i].messages) > 3
        /\ cache_log[j].response = cache_log[i].response

\* Call i of the log is the last store under the key before call j.
LastStoreBefore(i, j, key) ==
    /\ i < j
    /\ cache_log[i].op = "set"
    /\ cache_log[i].key = key
    /\ \A k \in (i + 1)..(j - 1) :
           ~(cache_log[k].op = "set" /\ cache_log[k].key = key)

(***************************************************************************)
(* C27: with the lookups and stores of any number of requests interleaved  *)
(* call by call, the cache never holds more than max_size entries, and a   *)
(* lookup returns a miss or the text of the last store under its key.      *)
(***************************************************************************)
C27_LastStoreWins ==
    /\ Len(cache) <= max_size
    /\ \A j \in 1..Len(cache_log) :
           (cache_log[j].op = "get" /\ cache_log[j].response # <<>>) =>
               \E i \in 1..Len(cache_log) :
                   /\ LastStoreBefore(i, j, cache_log[j].key)
                   /\ cache_log[i].response = cache_log[j].response

C27_Witness ==
    /\ Len(cache_log) = 3
    /\ cache_log[3].op = "get"
    /\ LastStoreBefore(2, 3, cache_log[3].key)
    /\ LastStoreBefore(1, 2, cache_log[3].key)
    /\ cache_log[1].response # cache_log[2].response
    /\ cache_log[1].messages # cache_log[2].messages
    /\ cache_log[3].response = cache_log[2].response

C29_ThreadBoundToRequest ==
    token_generator = "ended" => thread = "dead"

\* The text of the current round, read or still to come.
WholeText == RoundText \o stream.text

\* The places where a line read so far ends inside the whole text.
Cuts ==
    { Len(Concat([j \in 1..i |-> round_lines[j].content])) :
        i \in 1..Len(round_lines) } \ {0, Len(WholeText)}

\* No line ends inside an opening marker.
MarkersWhole ==
    \A c \in Cuts, p \in 1..Len(WholeText) :
        StartsAt(OpenMarker, WholeText, p) =>
            ~(p <= c /\ c < p + Len(OpenMarker) - 1)

\* The sequences of a sequence of texts that are not empty.
NonEmpty(texts) == SelectSeq(texts, LAMBDA t : t # <<>>)

\* The text is s0, a tag named x, s1, a tag named y, s2.
TwoTags(text, s0, s1, s2) == text = s0 \o TagX \o s1 \o TagY \o s2

Letters == {<<>>, <<"a">>, <<"b">>, <<"c">>}

(***************************************************************************)
(* C30: when the text of a round holds two complete tags and no line ends  *)
(* inside an opening marker, the texts passed through are, at every        *)
(* moment, the first of the non-empty texts before, between and after the  *)
(* tags, one event each and in that order, and they are all of them once   *)
(* the round is read; the calls extracted at the end of the round are      *)
(* those of the two tags, in the order of the tags.                        *)
(***************************************************************************)
C30_TagsLeftToRight ==
    (Len(requests_sent) = 1 /\ pc \in {"stream", "extract", "tools"}
        /\ MarkersWhole) =>
        \E s0, s1, s2 \in Letters :
            /\ TwoTags(WholeText, s0, s1, s2)
            /\ pc \in {"stream", "extract"} =>
                   IsPrefix(RoundOutput, NonEmpty(<<s0, s1, s2>>))
            /\ RoundRead => RoundOutput = NonEmpty(<<s0, s1, s2>>)
            /\ pc = "tools" =>
                   /\ Len(LastCalls) = 2
                   /\ LastCalls[1].name = <<"x">>
                   /\ LastCalls[2].name = <<"y">>

C30_Witness ==
    /\ Len(requests_sent) = 1
    /\ RoundRead
    /\ MarkersWhole
    /\ Len(round_lines) = MaxChunks
    /\ Contains(OpenMarker, round_lines[1].content)
    /\ ~Contains(CloseMarker, round_lines[1].content)
    /\ RoundOutput = <<(<<"a">>), (<<"b">>), (<<"c">>)>>

\* The texts occur in the text from position `from` on, one after the other
\* and without overlap, in the order of the sequence.
RECURSIVE OccurInOrder(_, _, _)
OccurInOrder(texts, text, from) ==
    IF texts = <<>> THEN TRUE
    ELSE LET p == Find(Head(texts), text, from)
         IN  /\ p # 0
             /\ OccurInOrder(Tail(texts), text, p + Len(Head(texts)))

(***************************************************************************)
(* C31: after every line of a round, the display buffer is empty or holds  *)
(* an opening marker, and the texts passed through so far are pieces of    *)
(* the text read so far, in the order in which it arrived.                 *)
(***************************************************************************)
C31_WithheldOnlyForTags ==
    (pc \in {"stream", "extract"}) =>
        /\ display_buffer = <<>> \/ Contains(OpenMarker, display_buffer)
        /\ OccurInOrder(RoundOutput, RoundText, 1)

C31_Witness ==
    /\ pc \in {"stream", "extract"}
    /\ outbox = <<>>
    /\ Len(round_lines) = 2
    /\ Contains(OpenMarker, display_buffer)
    /\ RoundOutput # <<>>
    /\ display_buffer # RoundText

(***************************************************************************)
(* C32: every iteration of the loop over the display buffer leaves the     *)
(* loop or makes the buffer strictly shorter, whatever the buffer holds,   *)
(* and the loop is left in the end, with the events and the buffer of the  *)
(* whole loop.                                                             *)
(***************************************************************************)
C32_ScanTerminates ==
    /\ [][pc = "scan" =>
            (pc' = "scanned" \/ Len(display_buffer') < Len(display_buffer))]_vars
    /\ <>(pc = "scanned")
    /\ [](pc = "scanned" =>
            /\ display_buffer = ProcessBuffer(RoundText).buf
            /\ outbox = Passthrough(ProcessBuffer(RoundText).out))

C32_Witness ==
    /\ pc = "scanned"
    /\ StartsAt(CloseMarker, RoundText, 1)
    /\ Len(outbox) = 1
    /\ outbox[1].content = CloseMarker
    /\ display_buffer = <<>>

(***************************************************************************)
(* C33: a request yields at most one event with done=true, and that event  *)
(* is the last one it yields.                                              *)
(***************************************************************************)
C33_SingleDone ==
    \A i \in 1..Len(Yielded) : Yielded[i].done => i = Len(Yielded)

\* The stores the request has made on the cache.
Stores == SelectSeq(cache_log, LAMBDA call : call.op = "set")

\* The text of the events the client has received, in order.
Delivered == Concat([i \in 1..Len(events) |-> events[i].content])

(***************************************************************************)
(* C34: when a request has ended after storing its response, the text      *)
(* stored is the text of the events its client received.                   *)
(***************************************************************************)
C34_StoredIsDelivered ==
    (pc = "closed" /\ connected /\ failure = "none" /\ Stores # <<>>) =>
        Stores[1].response = Delivered

(***************************************************************************)
(* C35: a request that has failed or whose client has gone stores nothing; *)
(* a store is made once only, after the completion event was yielded and   *)
(* consumed, and with a text that is not empty.                            *)
(***************************************************************************)
C35_StoreOnlyAfterSuccess ==
    /\ (failure # "none" \/ ~connected) => Stores = <<>>
    /\ Stores # <<>> =>
           /\ Len(Stores) = 1
           /\ pc = "closed"
           /\ events # <<>>
           /\ events[Len(events)] = DoneEvent
           /\ Stores[1].response = full_response
           /\ full_response # <<>>

C35_Witness ==
    /\ pc = "closed"
    /\ outbox = <<>>
    /\ failure = "transport"
    /\ full_response # <<>>
    /\ Len(requests_sent) = 2
    /\ Stores = <<>>
    /\ cache = <<>>

(***************************************************************************)
(* C36: two message lists whose windows differ, in the number of messages  *)
(* or in a role or a content, have different keys, and a lookup that       *)
(* returns a text returns one stored for a list with the same window.      *)
(***************************************************************************)
C36_WindowsHaveOwnKeys ==
    /\ \A i, j \in 1..Len(cache_log) :
           Window(cache_log[i].messages) # Window(cache_log[j].messages) =>
               cache_log[i].key # cache_log[j].key
    /\ \A i, j \in 1..Len(cache_log) :
           (/\ cache_log[j].op = "get"
            /\ cache_log[j].response # <<>>
            /\ LastStoreBefore(i, j, cache_log[j].key)) =>
               Window(cache_log[i].messages) = Window(cache_log[j].messages)

\* The keys of the entries of a cache.
KeysOf(c) == {c[i].key : i \in 1..Len(c)}

(***************************************************************************)
(* C37: a store under a key that the full cache already holds replaces     *)
(* the text and the timestamp of that entry and evicts no other entry:     *)
(* the keys of the cache are the same after the store.                     *)
(***************************************************************************)
C37_OverwriteEvictsNothing ==
    [][(/\ cache_log' # <<>>
        /\ cache_log'[1].op = "set"
        /\ cache_log' # cache_log
        /\ Len(cache) = max_size
        /\ Holds(cache_log'[1].key)) =>
           /\ KeysOf(cache') = KeysOf(cache)
           /\ EntryOf(cache', cache_log'[1].key).response
                  = cache_log'[1].response
           /\ EntryOf(cache', cache_log'[1].key).timestamp = time]_vars

(***************************************************************************)
(* C38: once delete_all_conversations has returned, the cache holds no     *)
(* text stored by a request that was running when it was called.           *)
(***************************************************************************)
C38_DeletionOutlastsRequests ==
    \A c, j \in 1..Len(cache_log) :
        (cache_log[c].op = "clear" /\ cache_log[c].started /\ c < j) =>
            /\ cache_log[j].op # "set"
            /\ ~Holds(_get_cache_key(request))

(***************************************************************************)
(* C39: clear_cache leaves the cache empty and answers with success, and   *)
(* every lookup after it is a miss until a text is stored again.           *)
(***************************************************************************)
C39_ClearCacheEmpties ==
    \A c \in 1..Len(cache_log) :
        cache_log[c].op = "clear_cache" =>
            /\ cache_log[c].response = <<"success">>
            /\ (c = Len(cache_log)) => cache = <<>>
            /\ \A j \in (c + 1)..Len(cache_log) :
                   (/\ cache_log[j].op = "get"
                    /\ \A k \in (c + 1)..(j - 1) : cache_log[k].op # "set")
                       => cache_log[j].response = <<>>

=============================================================================
